---- MODULE Spec2Model ----
(***************************************************************************)
(* Brainbrew: a Streamlit study aid.  One user session is modelled: the    *)
(* session store of App.py and the four page scripts Main, Notes, QnA and  *)
(* Quiz.  A step of the model is one script run (App.py's defaults, then   *)
(* the page script), started by a navigation, a widget submission or a     *)
(* st.rerun().  The remote chains are the environment: what they return    *)
(* and whether they fail is chosen nondeterministically.  The keys status   *)
(* and groq_api_key of the store are left out: the first is only shown in  *)
(* the sidebar, the second only handed to the remote client, whose         *)
(* rejection of it is one of the failures of a chain invocation.           *)
(***************************************************************************)
EXTENDS Integers, Sequences, FiniteSets, TLC

(* ------------------------------- bounds -------------------------------- *)
\* longest question list the Question Chain returns
MaxQuestions == 2
\* longest message log the model lets a generation start from
MaxMessages == 1
\* longest quiz the Quiz Chain returns
MaxQuiz == 2

(* ------------------------------- values -------------------------------- *)
\* Python's None for an optional value, and a held value
None == {}
Some(x) == {x}
Get(o) == CHOOSE x \in o : TRUE

\* user_input before the form was ever rendered (Python None), as a string
NoneStr == "None"
\* the topic strings the user may type
Topics == {"t1", "t2"}
\* what the text area of the form can return
FormValues == {""} \cup Topics
\* the four labels of st.radio
Choices == {"A", "B", "C", "D"}

\* The option mappings a generated quiz record may carry, as the sequence of
\* the correctness flags in key order: nothing but Dict[str, bool] is enforced.
OptionMaps ==
    { <<FALSE, TRUE, FALSE, FALSE>>,         \* four options, one correct
      <<TRUE, FALSE, FALSE, TRUE, FALSE>>,   \* five options, two correct
      <<TRUE, FALSE, FALSE>> }               \* three options

\* the question lists quiz_chain.invoke may return
QuizLists == UNION { [1..n -> OptionMaps] : n \in 0..MaxQuiz }

VARIABLES
    page,                  \* the page script of the last run
    pc,                    \* "idle", or "rerun" after st.rerun()
    display,               \* what the last run left on the screen
    user_input,
    first_time,
    notes,
    messages,
    quiz_questions,
    current_question_idx,
    score,
    attempted_questions,
    quiz_completed,
    total_questions,
    qcache,                \* the st.cache_data entry of cache_questions
    invoked,               \* history: the chains invoked in the last run
    failure,               \* history: a chain invocation failed in the last run
    nSubmit                \* history: "Next Question" submissions so far

vars == <<page, pc, display, user_input, first_time, notes, messages,
          quiz_questions, current_question_idx, score, attempted_questions,
          quiz_completed, total_questions, qcache, invoked, failure, nSubmit>>

quizVars == <<quiz_questions, current_question_idx, score, attempted_questions,
              quiz_completed, total_questions, nSubmit>>

Show(kind) == [kind |-> kind, body |-> None]
ShowNotes(text) == [kind |-> "notes", body |-> text]

(* ------------------------------ App.py --------------------------------- *)
Init ==
    /\ page = "none"
    /\ pc = "idle"
    /\ display = Show("none")
    /\ user_input = NoneStr
    /\ first_time = TRUE
    /\ notes = None
    /\ messages = <<>>
    /\ quiz_questions = None
    /\ current_question_idx = 0
    /\ score = 0
    /\ attempted_questions = {}
    /\ quiz_completed = FALSE
    /\ total_questions = 1
    /\ qcache = None
    /\ invoked = {}
    /\ failure = FALSE
    /\ nSubmit = 0

(* ------------------------------ Main.py -------------------------------- *)
\* The text area is a fresh widget, returning "", whenever the previous run
\* was another page's; on the Main page it keeps the submitted value.
OpenMain ==
    /\ pc = "idle"
    /\ page' = "Main"
    /\ first_time' = FALSE
    /\ user_input' = IF page = "Main" THEN user_input ELSE ""
    /\ display' = Show("form")
    /\ invoked' = {}
    /\ failure' = FALSE
    /\ UNCHANGED <<pc, notes, messages, qcache, quizVars>>

SubmitForm(t) ==
    /\ pc = "idle"
    /\ page = "Main"
    /\ user_input' = t
    /\ first_time' = FALSE
    /\ display' = Show("form")
    /\ invoked' = {}
    /\ failure' = FALSE
    /\ UNCHANGED <<page, pc, notes, messages, qcache, quizVars>>

(* ------------------------------ Notes.py ------------------------------- *)
\* the topic guard of the Notes and QnA pages: user_input != ""
TopicGuard(u) == u # ""

\* mutant of NotesHeld: the held notes are not looked at
NotesHeld_Never(n) == FALSE

\* st.session_state.notes is None, negated
NotesHeld(n) == n # None

\* the Notes chain may be triggered: the guard holds and no notes are held
NotesMayGenerate(u, n) == TopicGuard(u) /\ ~NotesHeld(n)

\* what notes_chain streams for a topic
NotesFor(t) == <<"notes", t>>

\* what the page script puts on the screen when no button was clicked
NotesView(u, n) ==
    IF TopicGuard(u)
    THEN IF ~NotesHeld(n) THEN Show("gen_button") ELSE ShowNotes(n)
    ELSE Show("prompt")

OpenNotes ==
    /\ pc = "idle"
    /\ page' = "Notes"
    /\ display' = NotesView(user_input, notes)
    /\ invoked' = {}
    /\ failure' = FALSE
    /\ UNCHANGED <<pc, user_input, first_time, notes, messages, qcache, quizVars>>

\* the run started by a click on "Generate Notes"
GenerateNotes(ok) ==
    /\ pc = "idle"
    /\ page = "Notes"
    /\ display.kind = "gen_button"
    /\ NotesMayGenerate(user_input, notes)
    /\ invoked' = {"notes"}
    /\ failure' = ~ok
    /\ IF ok
       THEN /\ notes' = Some(NotesFor(user_input))
            /\ display' = ShowNotes(notes')
       ELSE /\ notes' = notes
            /\ display' = Show("error")
    /\ UNCHANGED <<page, pc, user_input, first_time, messages, qcache, quizVars>>

(* ------------------------------- Quiz.py ------------------------------- *)
\* mutant of QuizMayGenerate: the held question sequence is not looked at
QuizMayGenerate_Always(q) == TRUE

\* the Quiz chain may be triggered only while no question sequence is held
QuizMayGenerate(q) == q = None

\* mutant of Answer: labels C and D pick each other's option
Answer_Swapped(choice) ==
    CASE choice = "A" -> 1
      [] choice = "B" -> 2
      [] choice = "C" -> 4
      [] choice = "D" -> 3

\* the option picked by a radio label, as a position in option_items
Answer(choice) ==
    CASE choice = "A" -> 1
      [] choice = "B" -> 2
      [] choice = "C" -> 3
      [] choice = "D" -> 4

\* mutant of ScoreAfter: the score grows whatever the option says
ScoreAfter_Always(options, choice, s) == s + 1

\* if options[answer]: score += 1
ScoreAfter(options, choice, s) ==
    IF options[Answer(choice)] THEN s + 1 ELSE s

\* mutant of AttemptedAfter: the index is not recorded
AttemptedAfter_Skip(att, idx) == att

\* attempted_questions.add(current_question_idx), in both branches
AttemptedAfter(att, idx) == att \cup {idx}

\* mutant of IsComplete: off by one
IsComplete_Strict(idx, total) == idx > total

\* the completion check made after the question block
IsComplete(idx, total) == idx >= total

\* What quiz() does up to the "Next Question" button for the questions qs:
\*   "error"    ZeroDivisionError in st.progress for an empty quiz, or
\*              IndexError on option_items[2], option_items[3]
\*   "question" the question at the index is shown with its button
\*   "complete" the index has reached the total: set the flag and rerun
\*   "end"      the end screen
QuizView(qs, idx, completed) ==
    IF Len(qs) = 0 THEN "error"
    ELSE IF ~completed
         THEN IF idx < Len(qs)
              THEN IF Len(qs[idx + 1]) < 4 THEN "error" ELSE "question"
              ELSE IF IsComplete(idx, Len(qs)) THEN "complete" ELSE "blank"
         ELSE "end"

\* quiz() in a run where "Next Question" was not clicked
QuizRun(qs) ==
    LET view == QuizView(qs, current_question_idx, quiz_completed) IN
    /\ total_questions' = Len(qs)
    /\ quiz_completed' = (quiz_completed \/ view = "complete")
    /\ pc' = IF view = "complete" THEN "rerun" ELSE "idle"
    /\ display' = Show(IF view = "complete" THEN "rerunning" ELSE view)
    /\ UNCHANGED <<current_question_idx, score, attempted_questions, nSubmit>>

\* the page script in a run where no button was clicked
QuizPageRun ==
    /\ page' = "Quiz"
    /\ invoked' = {}
    /\ failure' = FALSE
    /\ IF QuizMayGenerate(quiz_questions)
       THEN /\ display' = Show("gen_button")
            /\ pc' = "idle"
            /\ UNCHANGED quizVars
       ELSE /\ QuizRun(Get(quiz_questions))
            /\ UNCHANGED quiz_questions
    /\ UNCHANGED <<user_input, first_time, notes, messages, qcache>>

OpenQuiz ==
    /\ pc = "idle"
    /\ QuizPageRun

\* the run st.rerun() starts: only the Quiz page asks for one
Rerun ==
    /\ pc = "rerun"
    /\ QuizPageRun

\* the run started by a click on "Generate Quiz"
GenerateQuiz(qs, ok) ==
    /\ pc = "idle"
    /\ page = "Quiz"
    /\ display.kind = "gen_button"
    /\ QuizMayGenerate(quiz_questions)
    /\ invoked' = {"quiz"}
    /\ failure' = ~ok
    /\ IF ok
       THEN /\ quiz_questions' = Some(qs)
            /\ QuizRun(qs)
       ELSE /\ display' = Show("error")
            /\ UNCHANGED <<pc, quizVars>>
    /\ UNCHANGED <<page, user_input, first_time, notes, messages, qcache>>

\* the run started by a click on "Next Question" with the radio at choice
NextQuestion(choice) ==
    /\ pc = "idle"
    /\ page = "Quiz"
    /\ display.kind = "question"
    /\ ~QuizMayGenerate(quiz_questions)
    /\ LET qs == Get(quiz_questions)
           options == qs[current_question_idx + 1]
       IN /\ QuizView(qs, current_question_idx, quiz_completed) = "question"
          /\ total_questions' = Len(qs)
          /\ IF choice # ""
             THEN /\ score' = ScoreAfter(options, choice, score)
                  /\ attempted_questions' =
                         AttemptedAfter(attempted_questions, current_question_idx)
                  /\ current_question_idx' = current_question_idx + 1
                  /\ nSubmit' = nSubmit + 1
             ELSE UNCHANGED <<score, attempted_questions, current_question_idx,
                              nSubmit>>
    /\ pc' = "rerun"
    /\ display' = Show("rerunning")
    /\ invoked' = {}
    /\ failure' = FALSE
    /\ UNCHANGED <<page, user_input, first_time, notes, messages, qcache,
                   quiz_questions, quiz_completed>>

(* ------------------------------- QnA.py -------------------------------- *)
\* a question string and the answer string the Answer chain streams for it
Question(t, i) == [kind |-> "question", topic |-> t, idx |-> i]
AnswerTo(q) == [kind |-> "answer", topic |-> q.topic, idx |-> q.idx]

\* what questions_chain.invoke returns for a topic: q0 .. q(n-1)
QuestionsFor(t, n) == [i \in 1..n |-> Question(t, i - 1)]

\* cache_questions(): st.cache_data keys the entry by the function alone (it
\* takes no argument), so a held entry is returned whatever user_input is
CacheQuestions(cache, fresh) == IF cache = None THEN fresh ELSE Get(cache)

\* cache_questions()[1::]
DropFirst(qs) == SubSeq(qs, 2, Len(qs))

\* the two entries generate_qna logs for a question and its answer
QuestionEntry(q) == [role |-> "assistant", content |-> q]
AnswerEntry(q) == [role |-> "user", content |-> AnswerTo(q)]

\* the log entries of the loop when the first k answers arrive and, if k is
\* short of the list, the Answer chain fails on question k + 1, which has
\* been logged already
RECURSIVE Logged(_, _)
Logged(qs, k) ==
    IF qs = <<>> THEN <<>>
    ELSE IF k = 0 THEN <<QuestionEntry(Head(qs))>>
    ELSE <<QuestionEntry(Head(qs)), AnswerEntry(Head(qs))>>
             \o Logged(Tail(qs), k - 1)

\* the chat role an entry of the log is redisplayed under
RedisplayRole(message) ==
    IF message.role = "user" THEN "user" ELSE "assistant"

\* the chat roles the redisplay of the log shows, entry by entry
Redisplay(msgs) == [i \in 1..Len(msgs) |-> RedisplayRole(msgs[i])]

\* the chat roles generate_qna streams a question and its answer under
QuestionShownAs == "user"
AnswerShownAs == "assistant"

\* the chat roles of what the loop streams in full when the first k answers
\* arrive: entry for entry what Logged(qs, k) logs
RECURSIVE Streamed(_, _)
Streamed(qs, k) ==
    IF qs = <<>> THEN <<>>
    ELSE IF k = 0 THEN <<QuestionShownAs>>
    ELSE <<QuestionShownAs, AnswerShownAs>> \o Streamed(Tail(qs), k - 1)

\* a screen of the QnA page: the chat roles of the entries on it, in order
ShowLog(kind, roles) == [kind |-> kind, body |-> Some(roles)]

\* what the page script puts on the screen when no button was clicked
QnAView(u, msgs) ==
    IF TopicGuard(u) THEN ShowLog("log_button", Redisplay(msgs))
    ELSE Show("prompt")

OpenQnA ==
    /\ pc = "idle"
    /\ page' = "QnA"
    /\ display' = QnAView(user_input, messages)
    /\ invoked' = {}
    /\ failure' = FALSE
    /\ UNCHANGED <<pc, user_input, first_time, notes, messages, qcache, quizVars>>

\* The run started by a click on "Generate Question Answers": the Question
\* chain returns n questions (okQ) or fails, and the first k answers arrive.
GenerateQnA(n, okQ, k) ==
    /\ pc = "idle"
    /\ page = "QnA"
    /\ display.kind = "log_button"
    /\ TopicGuard(user_input)
    /\ Len(messages) <= MaxMessages
    /\ LET miss == qcache = None
           list == CacheQuestions(qcache, QuestionsFor(user_input, n))
           questions == DropFirst(list)
       IN IF miss /\ ~okQ
          THEN /\ invoked' = {"questions"}
               /\ failure' = TRUE
               /\ display' = ShowLog("error", Redisplay(messages))
               /\ UNCHANGED <<messages, qcache>>
          ELSE /\ k \in 0..Len(questions)
               /\ qcache' = Some(list)
               /\ messages' = messages \o Logged(questions, k)
               /\ invoked' =
                      (IF miss THEN {"questions"} ELSE {})
                      \cup (IF questions # <<>> THEN {"answer"} ELSE {})
               /\ failure' = (k < Len(questions))
               /\ display' = ShowLog(IF k < Len(questions) THEN "error" ELSE "log",
                                      Redisplay(messages) \o Streamed(questions, k))
    /\ UNCHANGED <<page, pc, user_input, first_time, notes, quizVars>>

(* ---------------------------- specification ---------------------------- *)
Next ==
    \/ OpenMain
    \/ \E t \in FormValues : SubmitForm(t)
    \/ OpenNotes
    \/ \E ok \in BOOLEAN : GenerateNotes(ok)
    \/ OpenQnA
    \/ \E n \in 0..MaxQuestions, okQ \in BOOLEAN, k \in 0..MaxQuestions :
           GenerateQnA(n, okQ, k)
    \/ OpenQuiz
    \/ \E qs \in QuizLists, ok \in BOOLEAN : GenerateQuiz(qs, ok)
    \/ \E choice \in Choices : NextQuestion(choice)
    \/ Rerun

Spec == Init /\ [][Next]_vars

(* ------------------------------- claims -------------------------------- *)
\* a question sequence is held, and the sequence
Held == quiz_questions # None
Questions == Get(quiz_questions)
\* the option mapping of the question at the current index
CurrentOptions == Questions[current_question_idx + 1]
\* the option a radio label stands for: A..D are the first four options
PositionOf == [A |-> 1, B |-> 2, C |-> 3, D |-> 4]
\* the number of entries of an option mapping marked correct
CorrectCount(options) == Cardinality({i \in DOMAIN options : options[i]})

\* C1: in every reachable state score <= len(attempted_questions) <=
\* total_questions, and no step decreases current_question_idx.
C1_ScoreInvariant ==
    /\ [](/\ score <= Cardinality(attempted_questions)
          /\ Cardinality(attempted_questions) <= total_questions)
    /\ [][current_question_idx' >= current_question_idx]_vars

\* two submissions, one of them correct
C1_Witness ==
    /\ nSubmit = 2
    /\ score = 1
    /\ Cardinality(attempted_questions) = 2

\* C2: for a quiz of N questions the flag is set by the re-render that follows
\* the N-th submission, it is not set after fewer than N submissions, and
\* once set it stays set.
C2_Completion ==
    /\ [](quiz_completed => Held /\ nSubmit = Len(Questions))
    /\ [][(pc = "rerun" /\ Held /\ nSubmit > 0 /\ nSubmit = Len(Questions))
             => quiz_completed']_vars
    /\ [][quiz_completed => quiz_completed']_vars

\* a quiz of two questions completed, and a later run of another page
C2_Witness ==
    /\ quiz_completed
    /\ nSubmit = 2
    /\ page = "QnA"

\* C3: a submission of option o on question i, while i < total_questions,
\* adds 1 to the score if o is marked correct in question i and leaves it
\* otherwise, adds i to attempted_questions and adds 1 to the index.
C3_SubmissionStep ==
    [][\A o \in Choices :
          (NextQuestion(o) /\ current_question_idx < total_questions)
             => /\ score' = score + (IF CurrentOptions[PositionOf[o]] THEN 1 ELSE 0)
                /\ attempted_questions' =
                       attempted_questions \cup {current_question_idx}
                /\ current_question_idx' = current_question_idx + 1]_vars

\* the first question answered correctly, the second being answered
C3_Witness ==
    /\ nSubmit = 1
    /\ score = 1
    /\ attempted_questions = {0}
    /\ current_question_idx = 1
    /\ total_questions = 2

\* C4: with the question list q0 .. q(N-1) the Question Chain returned, and a
\* topic supplied, the message log is made of question/answer pairs only, each question directly
\* followed by its answer, and the questions are q1 .. q(N-1) in that order,
\* once for every use of the trigger.
C4_QnAPairs ==
    (qcache # None /\ user_input \in Topics) =>
        LET list == Get(qcache)
            P == Len(list) - 1
            m == Len(messages) \div 2
        IN /\ Len(messages) = 2 * m
           /\ IF P <= 0 THEN m = 0 ELSE m % P = 0
           /\ \A j \in 1..m :
                 /\ messages[2 * j - 1].content = list[((j - 1) % P) + 2]
                 /\ messages[2 * j].content = AnswerTo(messages[2 * j - 1].content)

\* C5: while user_input is None or "", no chain was invoked by the last run
\* and the screen offers no generate trigger.
C5_EmptyTopicBoundary ==
    user_input \in {NoneStr, ""} =>
        /\ invoked = {}
        /\ display.kind \notin {"gen_button", "log_button"}

\* C6 as claimed: with notes held (here: generated for a supplied topic), the
\* Notes page always shows the stored text, no run invokes the Notes chain
\* and no step changes the notes.
C6_Original ==
    /\ []((page = "Notes" /\ notes \in {Some(NotesFor(t)) : t \in Topics})
             => display = ShowNotes(notes))
    /\ [][notes # None => notes' = notes /\ "notes" \notin invoked']_vars

\* C6, amended: with notes held, the Notes page shows the stored text when
\* user_input is not "" and the enter-topics prompt when it is; no run
\* invokes the Notes chain and no step changes the stored notes.
C6_NotesImmutable ==
    /\ [](page = "Notes" /\ notes # None =>
            display = IF user_input # "" THEN ShowNotes(notes) ELSE Show("prompt"))
    /\ [][notes # None => notes' = notes /\ "notes" \notin invoked']_vars

\* notes held for one topic and redisplayed when the topic is another
C6_Witness ==
    /\ page = "Notes"
    /\ notes = Some(NotesFor("t1"))
    /\ user_input = "t2"
    /\ display = ShowNotes(notes)
    /\ invoked = {}

\* a question record outside the contract: not exactly four options, or not
\* exactly one of them marked correct
Malformed(options) == Len(options) # 4 \/ CorrectCount(options) # 1

\* C7 as claimed: a submission on a question outside the contract leaves the
\* score, marks the index attempted and advances.
C7_Original ==
    [][\A o \in Choices :
          (NextQuestion(o) /\ Malformed(CurrentOptions))
             => /\ score' = score
                /\ attempted_questions' =
                       attempted_questions \cup {current_question_idx}
                /\ current_question_idx' = current_question_idx + 1]_vars

\* C7, amended: a submission on a question outside the contract is on a
\* question of at least four options; it adds 1 to the score exactly when the
\* chosen one of the first four options is marked correct, marks the index
\* attempted and advances.  A question of fewer than four options is never
\* submitted: its render ends in an error and no step changes the progress.
C7_TolerantSubmission ==
    /\ [][\A o \in Choices :
             (NextQuestion(o) /\ Malformed(CurrentOptions))
                => /\ Len(CurrentOptions) >= 4
                   /\ score' = score
                          + (IF CurrentOptions[PositionOf[o]] THEN 1 ELSE 0)
                   /\ attempted_questions' =
                          attempted_questions \cup {current_question_idx}
                   /\ current_question_idx' = current_question_idx + 1]_vars
    /\ [][(/\ Held
           /\ current_question_idx < Len(Questions)
           /\ Len(CurrentOptions) < 4)
             => UNCHANGED <<score, attempted_questions, current_question_idx,
                            quiz_completed>>]_vars
    /\ []((/\ Held
           /\ page = "Quiz"
           /\ pc = "idle"
           /\ current_question_idx < Len(Questions)
           /\ Len(CurrentOptions) < 4)
             => display.kind = "error")

\* a correct entry of a two-correct question was chosen and scored, and the
\* quiz advanced
C7_Witness ==
    /\ Held
    /\ nSubmit = 1
    /\ score = 1
    /\ current_question_idx = 1
    /\ CorrectCount(Questions[1]) = 2

\* C8: a run (here: on a supplied topic) in which a chain invocation failed
\* leaves notes, the message log, quiz_questions and the quiz progress as
\* they were before it.
C8_NoPartialResult ==
    [][(failure' /\ user_input \in Topics) =>
          /\ notes' = notes
          /\ messages' = messages
          /\ UNCHANGED <<quiz_questions, current_question_idx, score,
                         attempted_questions, quiz_completed>>]_vars

\* C9: the questions a use of the trigger logs were produced by the Question
\* Chain for the current user_input, never for another topic input.
C9_QuestionsForCurrentTopic ==
    [][\A i \in (Len(messages) + 1)..Len(messages') :
          messages'[i].content.topic \in Topics
             => messages'[i].content.topic = user_input]_vars

\* C10: the Quiz chain is invoked only while quiz_questions is None; a held
\* sequence is never replaced or cleared and total_questions equals its
\* length; once quiz_completed is set no step changes score,
\* attempted_questions or current_question_idx, or clears the flag.
C10_QuizOnceCompletedTerminal ==
    /\ [][("quiz" \in invoked' => quiz_questions = None)
          /\ (Held => quiz_questions' = quiz_questions)]_vars
    /\ [](Held => total_questions = Len(Questions))
    /\ [][quiz_completed =>
             /\ quiz_completed'
             /\ UNCHANGED <<score, attempted_questions,
                            current_question_idx>>]_vars

\* the end screen of a completed quiz, opened again from another page
C10_Witness ==
    /\ quiz_completed
    /\ page = "Quiz"
    /\ display.kind = "end"
    /\ first_time = FALSE
    /\ score = 2

\* C11: an entry of the message log shown on the QnA page (for a supplied
\* topic) is shown by the next run of the page under the same chat role: the
\* redisplay reproduces the roles of the conversation as it was generated.
C11_RoleConsistency ==
    [][(/\ page = "QnA"
        /\ page' = "QnA"
        /\ user_input \in Topics
        /\ display.body # None
        /\ display'.body # None)
          => \A i \in 1..Len(Get(display.body)) :
                /\ i <= Len(Get(display'.body))
                /\ Get(display'.body)[i] = Get(display.body)[i]]_vars

====
